---------------------------- MODULE Spec2Model ----------------------------
(***************************************************************************)
(* Model of the heuristic fashion-feedback core of tailor-ai:              *)
(*   StyleEngine  (backend/app/services/style_engine.py)                   *)
(*   RulesEngine  (backend/app/services/rules_engine.py)                   *)
(*   ColorService (backend/app/services/color_service.py)                  *)
(* together with the part of CLIPService the StyleEngine calls.            *)
(*                                                                         *)
(* The public operations are coroutines.  A coroutine runs without         *)
(* interruption up to an await of the embedding collaborator               *)
(* (clip_service.encode_image / compute_image_similarity); there another   *)
(* call may run.  Awaits of the engine's own coroutines that never reach   *)
(* the collaborator (get_style_embeddings, the RulesEngine and the         *)
(* ColorService helpers) do not give up control.  Each action below is one *)
(* such uninterrupted segment of one call.                                 *)
(*                                                                         *)
(* Numbers are exact rationals <<numerator, denominator>> in lowest terms. *)
(***************************************************************************)
EXTENDS Integers, Sequences, FiniteSets, TLC

VARIABLES
    service,        \* which of the three service objects the calls of this behaviour go to
    clip_service,   \* StyleEngine.clip_service: "None" until initialize()
    model,          \* CLIPService.model: "None" until load_model() succeeds
    style_cache,    \* StyleEngine.style_cache: dict style_id -> list of embeddings
    clock,          \* the last value read from int(time.time())
    ncalls,         \* number of public calls started so far
    calls,          \* per caller: the StyleEngine call in flight or returned last
    out             \* the value returned by the last RulesEngine / ColorService call

vars == <<service, clip_service, model, style_cache, clock, ncalls, calls, out>>

----------------------------------------------------------------------------
(* Bounds of the exploration *)

MaxCalls == 2       \* public calls started in one behaviour
MaxClock == 1       \* seconds that may pass in one behaviour

Procs == {1, 2}       \* coroutines that may be in flight together
\* the part of the core a behaviour exercises: a service, or the feedback rules
\* of match_style on the similarities the collaborator may return
Services == {"style_engine", "rules_engine", "color_service", "style_feedback"}

----------------------------------------------------------------------------
(* Exact rational arithmetic *)

RECURSIVE Gcd(_, _)
Gcd(a, b) == IF b = 0 THEN a ELSE Gcd(b, a % b)

IAbs(n) == IF n < 0 THEN -n ELSE n

Rat(n, d) ==
    LET s == IF d < 0 THEN -1 ELSE 1
        g == Gcd(IAbs(n), IAbs(d))
    IN  <<(s * n) \div g, (s * d) \div g>>

RAdd(a, b) == Rat(a[1] * b[2] + b[1] * a[2], a[2] * b[2])
RSub(a, b) == Rat(a[1] * b[2] - b[1] * a[2], a[2] * b[2])
RDiv(a, b) == Rat(a[1] * b[2], a[2] * b[1])
RAbs(a) == <<IAbs(a[1]), a[2]>>
RLt(a, b) == a[1] * b[2] < b[1] * a[2]
RLe(a, b) == a[1] * b[2] <= b[1] * a[2]
RGt(a, b) == RLt(b, a)
RMin(a, b) == IF RLt(b, a) THEN b ELSE a
Zero == Rat(0, 1)
One == Rat(1, 1)

RECURSIVE RSum(_)
RSum(s) == IF s = <<>> THEN Zero ELSE RAdd(Head(s), RSum(Tail(s)))

RECURSIVE RMax(_)
RMax(s) ==
    IF Len(s) = 1 THEN Head(s)
    ELSE LET m == RMax(Tail(s)) IN IF RLt(Head(s), m) THEN m ELSE Head(s)

\* np.mean of a non-empty list
RMean(s) == RDiv(RSum(s), Rat(Len(s), 1))

InUnit(r) == RLe(Zero, r) /\ RLe(r, One)


----------------------------------------------------------------------------
(* CLIPService: embeddings and cosine similarity.  An embedding is a vector *)
(* of integers; the ones used here have integral norms, so that the cosine  *)
(* of two of them is an exact rational.                                     *)

\* _mock_embedding: [0.1] * 512
MockEmbedding == <<6, 8>>

\* get_style_embeddings' mock list: [0.1]*512, [0.2]*512, [0.15]*512 (three
\* multiples of one and the same vector)
MockStyleEmbeddings == <<<<6, 8>>, <<12, 16>>, <<9, 12>>>>

\* _mock_similarity
MockSimilarity == Rat(75, 100)

U1 == "http://img/1"
U2 == "http://img/2"
FrameBytes == "frame-bytes"     \* a bytes object, as main's callers pass for a frame

\* model.get_image_features of the image behind a URL
ImageFeatures(url) == IF url = U1 THEN <<10, 0>> ELSE <<-6, -8>>

\* encode_image: the mock embedding without a model, and on any exception;
\* a bytes input raises TypeError at image_input.startswith('http')
EncodeImage(image_input) ==
    IF model = "None" THEN MockEmbedding
    ELSE IF image_input \in {U1, U2} THEN ImageFeatures(image_input)
    ELSE MockEmbedding

Dot(a, b) == a[1] * b[1] + a[2] * b[2]
Norm(a) == CHOOSE n \in 0..Dot(a, a) : n * n = Dot(a, a)

\* normalise both vectors, then the dot product
CosineSimilarity(a, b) == Rat(Dot(a, b), Norm(a) * Norm(b))

\* compute_image_similarity
ComputeImageSimilarity(e1, e2) ==
    IF model = "None" THEN MockSimilarity ELSE CosineSimilarity(e1, e2)

----------------------------------------------------------------------------
(* StyleEngine: data *)

\* f"style_{uuid.uuid4().hex[:8]}": one of the values the truncated uuid can take
UuidIds == {[kind |-> "uuid4", n |-> 1], [kind |-> "uuid4", n |-> 2]}
\* f"style_{int(time.time())}"
TimestampId(t) == [kind |-> "time", n |-> t]
NoId == [kind |-> "none", n |-> 0]

UrlLists == {<<>>, <<U1>>, <<U1, U2>>}

Seg(class, bbox) == [keys |-> {"bbox", "mask", "class", "confidence"}, class |-> class, bbox |-> bbox]
\* a segmentation result without its "class" key
SegNoClass(bbox) == [keys |-> {"bbox", "mask", "confidence"}, class |-> "", bbox |-> bbox]

\* the segmentation results the calls are made with; a bbox is (x1, y1, x2, y2)
SegLists ==
    {<<>>,
     <<Seg("shirt", <<0, 0, 1, 3>>)>>,
     <<Seg("pants", <<0, 2, 1, 4>>)>>,
     <<Seg("dress", <<0, 0, 1, 4>>)>>,
     <<Seg("pants", <<0, 1, 1, 4>>), Seg("shirt", <<0, 0, 1, 3>>)>>,
     <<Seg("shirt", <<0, 0, 1, 3>>), SegNoClass(<<0, 0, 1, 4>>), Seg("pants", <<0, 2, 1, 4>>)>>}

\* the segmentation results match_style is called with
MatchSegLists == {segs \in SegLists : Len(segs) # 1}

\* _create_style_feedback; `about` is the garment class an f-string message names
StyleFeedback(message, about, confidence, priority) ==
    [type |-> "style", message |-> message, about |-> about,
     confidence |-> confidence, priority |-> priority, actionable |-> TRUE]

IdleCall ==
    [op |-> "none", pc |-> "idle", style_id |-> NoId, image_urls |-> <<>>,
     segmentation_results |-> <<>>, embeddings |-> <<>>, style_embeddings |-> <<>>,
     alias |-> FALSE, frame_embedding |-> <<0, 0>>, similarities |-> <<>>,
     g |-> 0, garment_similarities |-> <<>>, feedback |-> <<>>,
     ret_id |-> NoId, ret_ok |-> FALSE, raised |-> FALSE,
     \* not program state: the number of the call, whether no other call was
     \* in flight when it was made, and what the cache then held under style_id
     seq |-> 0, alone |-> FALSE, present |-> FALSE, pre |-> <<>>]

\* dict assignment  d[k] = v
Put(d, k, v) == [x \in DOMAIN d \cup {k} |-> IF x = k THEN v ELSE d[x]]
\* del d[k]
Del(d, k) == [x \in DOMAIN d \ {k} |-> d[x]]
\* the entry under k, the empty list when there is none
Entry(d, k) == IF k \in DOMAIN d THEN d[k] ELSE <<>>

\* A match_style call holds in its local style_embeddings the very list object
\* the cache holds under its style_id (get_style_embeddings returns the cached
\* list, not a copy) for as long as c.alias is TRUE.
Aliases(c, sid) ==
    c.op = "match_style" /\ c.pc \in {"encode", "similarity", "garment"}
    /\ c.alias /\ c.style_id = sid

\* list.extend on the cached list is seen through every alias of it
ExtendAliases(cs, sid, new) ==
    [q \in Procs |-> IF Aliases(cs[q], sid)
                     THEN [cs[q] EXCEPT !.style_embeddings = @ \o new]
                     ELSE cs[q]]

\* the cache drops or replaces the list object under sid: the aliases keep the old one
Unalias(cs, sid) ==
    [q \in Procs |-> IF Aliases(cs[q], sid) THEN [cs[q] EXCEPT !.alias = FALSE] ELSE cs[q]]

----------------------------------------------------------------------------
(* StyleEngine.match_style *)

NoReferenceFeedback == StyleFeedback("No reference style found", "", Zero, "low")

\* the except branch of match_style
MatchStyleReraise(c) == [c EXCEPT !.pc = "done", !.raised = TRUE]
MatchStyleExcept(c) ==
    [c EXCEPT !.pc = "done",
              !.feedback = <<StyleFeedback("Style matching unavailable", "", Zero, "low")>>]

OverallFeedbackInclusive(similarities) ==
    LET best_similarity == RMax(similarities)
        avg_similarity == RMean(similarities)
    IN  IF RLe(Rat(7, 10), best_similarity)
        THEN StyleFeedback("Excellent style match", "", best_similarity, "high")
        ELSE IF RLe(Rat(5, 10), avg_similarity)
        THEN StyleFeedback("Good style alignment", "", avg_similarity, "medium")
        ELSE StyleFeedback("Consider adjusting your outfit", "", avg_similarity, "high")

\* the one overall item, from best = max(similarities) and avg = np.mean(similarities)
OverallFeedback(similarities) ==
    LET best_similarity == RMax(similarities)
        avg_similarity == RMean(similarities)
    IN  IF RGt(best_similarity, Rat(7, 10))
        THEN StyleFeedback("Excellent style match", "", best_similarity, "high")
        ELSE IF RGt(avg_similarity, Rat(5, 10))
        THEN StyleFeedback("Good style alignment", "", avg_similarity, "medium")
        ELSE StyleFeedback("Consider adjusting your outfit", "", avg_similarity, "high")

GarmentFeedbackInclusive(garment_class, similarities) ==
    LET avg_similarity == RMean(similarities)
    IN  IF RLe(Rat(8, 10), avg_similarity)
        THEN StyleFeedback("perfectly matches your reference style", garment_class,
                           avg_similarity, "medium")
        ELSE IF RLe(Rat(6, 10), avg_similarity)
        THEN StyleFeedback("works well with your reference style", garment_class,
                           avg_similarity, "low")
        ELSE StyleFeedback("Consider a different garment", garment_class,
                           avg_similarity, "high")

\* the item of one segmented garment, from the mean of its similarities
GarmentFeedback(garment_class, similarities) ==
    LET avg_similarity == RMean(similarities)
    IN  IF RGt(avg_similarity, Rat(8, 10))
        THEN StyleFeedback("perfectly matches your reference style", garment_class,
                           avg_similarity, "medium")
        ELSE IF RGt(avg_similarity, Rat(6, 10))
        THEN StyleFeedback("works well with your reference style", garment_class,
                           avg_similarity, "low")
        ELSE StyleFeedback("Consider a different garment", garment_class,
                           avg_similarity, "high")

\* _analyze_garment_style_match, from segmentation result number g on, up to its
\* next await: a result without "class" or "bbox" raises KeyError, which the
\* helper's own except swallows, returning the items collected so far
GarmentStep(c, g) ==
    IF g > Len(c.segmentation_results) THEN [c EXCEPT !.pc = "done"]
    ELSE IF ~({"class", "bbox"} \subseteq c.segmentation_results[g].keys)
    THEN [c EXCEPT !.pc = "done"]
    ELSE [c EXCEPT !.pc = "garment", !.g = g, !.garment_similarities = <<>>]

\* get_style_embeddings: the cached list, else a fresh mock list that is cached
LookupEmbeddings(sid) == IF sid \in DOMAIN style_cache THEN style_cache[sid] ELSE MockStyleEmbeddings
LookupCache(sid) ==
    IF sid \in DOMAIN style_cache THEN style_cache ELSE Put(style_cache, sid, MockStyleEmbeddings)

\* no other call is suspended at an await
Alone(p) == \A q \in Procs \ {p} : calls[q].pc \in {"idle", "done"}

\* a call runs as coroutine p: the first one never used, if there is one, else
\* one whose call has returned
CanCall(p) ==
    /\ service = "style_engine"
    /\ calls[p].pc \in {"idle", "done"}
    /\ \A q \in Procs : calls[q].pc = "idle" => p <= q
    /\ calls[p].pc = "done" => \A q \in Procs : calls[q].pc # "idle"
    /\ ncalls < MaxCalls

\* match_style up to the await of encode_image
CallMatchStyle(p, sid, segs) ==
    /\ CanCall(p)
    /\ ncalls' = ncalls + 1
    /\ style_cache' = LookupCache(sid)
    /\ LET c == [IdleCall EXCEPT !.op = "match_style", !.style_id = sid,
                                 !.segmentation_results = segs,
                                 !.style_embeddings = LookupEmbeddings(sid),
                                 !.seq = ncalls + 1,
                                 !.present = (sid \in DOMAIN style_cache),
                                 !.pre = Entry(style_cache, sid)]
       IN  calls' = [calls EXCEPT ![p] =
                IF c.style_embeddings = <<>>
                THEN [c EXCEPT !.pc = "done", !.feedback = <<NoReferenceFeedback>>]
                ELSE IF clip_service = "None"
                THEN MatchStyleExcept(c)              \* AttributeError on None
                ELSE [c EXCEPT !.pc = "encode", !.alias = TRUE]]
    /\ UNCHANGED <<service, clip_service, model, clock, out>>

\* encode_image(frame) returns; the loop over style_embeddings awaits its first similarity
MatchEncoded(p) ==
    /\ calls[p].op = "match_style" /\ calls[p].pc = "encode"
    /\ calls' = [calls EXCEPT ![p] = [@ EXCEPT !.pc = "similarity",
                                               !.frame_embedding = EncodeImage(FrameBytes)]]
    /\ UNCHANGED <<service, clip_service, model, style_cache, clock, ncalls, out>>

\* one compute_image_similarity of the loop returns; after the last one the
\* overall item is made and the garment analysis runs up to its first await
MatchSimilarity(p) ==
    /\ calls[p].op = "match_style" /\ calls[p].pc = "similarity"
    /\ LET c == calls[p]
           i == Len(c.similarities) + 1
           sims == Append(c.similarities,
                          ComputeImageSimilarity(c.frame_embedding, c.style_embeddings[i]))
           c1 == [c EXCEPT !.similarities = sims]
       IN  calls' = [calls EXCEPT ![p] =
                IF Len(sims) < Len(c.style_embeddings) THEN c1
                ELSE LET c2 == [c1 EXCEPT !.feedback = <<OverallFeedback(sims)>>]
                     IN  IF c.segmentation_results = <<>>
                         THEN [c2 EXCEPT !.pc = "done"]
                         ELSE GarmentStep(c2, 1)]
    /\ UNCHANGED <<service, clip_service, model, style_cache, clock, ncalls, out>>

\* one compute_image_similarity of a garment's loop returns; after the last one
\* the garment's item is appended and the next segmentation result is taken
MatchGarmentSimilarity(p) ==
    /\ calls[p].op = "match_style" /\ calls[p].pc = "garment"
    /\ LET c == calls[p]
           j == Len(c.garment_similarities) + 1
           sims == Append(c.garment_similarities,
                          ComputeImageSimilarity(MockEmbedding, c.style_embeddings[j]))
       IN  calls' = [calls EXCEPT ![p] =
                IF Len(sims) < Len(c.style_embeddings)
                THEN [c EXCEPT !.garment_similarities = sims]
                ELSE GarmentStep(
                        [c EXCEPT !.garment_similarities = sims,
                                  !.feedback = Append(@,
                                      GarmentFeedback(c.segmentation_results[c.g].class, sims))],
                        c.g + 1)]
    /\ UNCHANGED <<service, clip_service, model, style_cache, clock, ncalls, out>>

----------------------------------------------------------------------------
(* StyleEngine.create_style_profile *)

\* the except branch of create_style_profile, time.time() reading t
CreateExcept(c, t) == [c EXCEPT !.pc = "done", !.ret_id = TimestampId(t)]

\* the cache when the except branch returns: nothing was stored under the
\* identifier of line 210
FailedCreateCacheReserved(style_id) == Put(style_cache, style_id, <<>>)
FailedCreateCache(style_id) == style_cache

\* self.style_cache[style_id] = embeddings
CreatedCacheDropLast(style_id, embeddings) ==
    Put(style_cache, style_id, SubSeq(embeddings, 1, Len(embeddings) - 1))
CreatedCache(style_id, embeddings) == Put(style_cache, style_id, embeddings)

\* create_style_profile up to its first await of encode_image, or to its return
CallCreateStyleProfile(p, urls, uuid, t) ==
    /\ CanCall(p)
    /\ ncalls' = ncalls + 1
    /\ LET c == [IdleCall EXCEPT !.op = "create_style_profile", !.style_id = uuid,
                                 !.image_urls = urls, !.seq = ncalls + 1]
       IN  IF urls = <<>>
           THEN /\ style_cache' = CreatedCache(uuid, <<>>)
                /\ calls' = [Unalias(calls, uuid) EXCEPT ![p] =
                                [c EXCEPT !.pc = "done", !.ret_id = uuid]]
                /\ clock' = clock
           ELSE IF clip_service = "None"
           THEN /\ style_cache' = FailedCreateCache(uuid)   \* AttributeError on None
                /\ calls' = [calls EXCEPT ![p] = CreateExcept(c, t)]
                /\ clock' = t
           ELSE /\ style_cache' = style_cache
                /\ calls' = [calls EXCEPT ![p] = [c EXCEPT !.pc = "encode"]]
                /\ clock' = clock
    /\ UNCHANGED <<service, clip_service, model, out>>

\* an encode_image of create's loop returns; after the last URL the list is
\* stored under the identifier and the identifier returned
CreateEncoded(p) ==
    /\ calls[p].op = "create_style_profile" /\ calls[p].pc = "encode"
    /\ LET c == calls[p]
           k == Len(c.embeddings) + 1
           embeddings == Append(c.embeddings, EncodeImage(c.image_urls[k]))
       IN  IF Len(embeddings) < Len(c.image_urls)
           THEN /\ calls' = [calls EXCEPT ![p] = [c EXCEPT !.embeddings = embeddings]]
                /\ style_cache' = style_cache
           ELSE /\ style_cache' = CreatedCache(c.style_id, embeddings)
                /\ calls' = [Unalias(calls, c.style_id) EXCEPT ![p] =
                                [c EXCEPT !.embeddings = embeddings, !.pc = "done",
                                          !.ret_id = c.style_id]]
    /\ UNCHANGED <<service, clip_service, model, clock, ncalls, out>>

----------------------------------------------------------------------------
(* StyleEngine.update_style_profile *)

\* the except branch of update_style_profile
UpdateExcept(c) == [c EXCEPT !.pc = "done", !.ret_ok = FALSE]

\* "if style_id in cache: extend, else: assign"
UpdatedCacheEveryEntry(sid, new_embeddings) ==
    [k \in DOMAIN style_cache \cup {sid} |-> Entry(style_cache, k) \o new_embeddings]
UpdatedCache(sid, new_embeddings) ==
    IF sid \in DOMAIN style_cache
    THEN [style_cache EXCEPT ![sid] = @ \o new_embeddings]
    ELSE Put(style_cache, sid, new_embeddings)

\* the cache after call c has stored new_embeddings: the entry is looked up and
\* extended after the last await, with no await in between
UpdateCommitStale(c, new_embeddings) ==
    Put(style_cache, c.style_id, c.pre \o new_embeddings)
UpdateCommit(c, new_embeddings) == UpdatedCache(c.style_id, new_embeddings)

\* update_style_profile up to its first await of encode_image, or to its return
CallUpdateStyleProfile(p, sid, urls) ==
    /\ CanCall(p)
    /\ ncalls' = ncalls + 1
    /\ LET c == [IdleCall EXCEPT !.op = "update_style_profile", !.style_id = sid,
                                 !.image_urls = urls, !.seq = ncalls + 1,
                                 !.alone = Alone(p),
                                 !.present = (sid \in DOMAIN style_cache),
                                 !.pre = Entry(style_cache, sid)]
       IN  IF urls = <<>>
           THEN /\ style_cache' = UpdateCommit(c, <<>>)
                /\ calls' = [calls EXCEPT ![p] = [c EXCEPT !.pc = "done", !.ret_ok = TRUE]]
           ELSE /\ style_cache' = style_cache
                /\ calls' = [calls EXCEPT ![p] =
                                IF clip_service = "None" THEN UpdateExcept(c)
                                ELSE [c EXCEPT !.pc = "encode"]]
    /\ UNCHANGED <<service, clip_service, model, clock, out>>

\* an encode_image of update's loop returns; after the last URL the cache is updated
UpdateEncoded(p) ==
    /\ calls[p].op = "update_style_profile" /\ calls[p].pc = "encode"
    /\ LET c == calls[p]
           k == Len(c.embeddings) + 1
           new_embeddings == Append(c.embeddings, EncodeImage(c.image_urls[k]))
       IN  IF Len(new_embeddings) < Len(c.image_urls)
           THEN /\ calls' = [calls EXCEPT ![p] = [c EXCEPT !.embeddings = new_embeddings]]
                /\ style_cache' = style_cache
           ELSE /\ style_cache' = UpdateCommit(c, new_embeddings)
                /\ calls' = [ExtendAliases(calls, c.style_id, new_embeddings) EXCEPT ![p] =
                                [c EXCEPT !.embeddings = new_embeddings, !.pc = "done",
                                          !.ret_ok = TRUE]]
    /\ UNCHANGED <<service, clip_service, model, clock, ncalls, out>>

----------------------------------------------------------------------------
(* StyleEngine.delete_style_profile *)

\* "if style_id in cache: del cache[style_id]"
DeleteFromClearing(cache, sid) == <<>>
DeleteFrom(cache, sid) == IF sid \in DOMAIN cache THEN Del(cache, sid) ELSE cache
DeletedCache(sid) == DeleteFrom(style_cache, sid)

\* delete_style_profile awaits nothing: the whole call is one step
CallDeleteStyleProfile(p, sid) ==
    /\ CanCall(p)
    /\ ncalls' = ncalls + 1
    /\ style_cache' = DeletedCache(sid)
    /\ calls' = [Unalias(calls, sid) EXCEPT ![p] =
                    [IdleCall EXCEPT !.op = "delete_style_profile", !.style_id = sid,
                                     !.seq = ncalls + 1,
                                     !.present = (sid \in DOMAIN style_cache),
                                     !.pre = Entry(style_cache, sid),
                                     !.pc = "done", !.ret_ok = TRUE]]
    /\ UNCHANGED <<service, clip_service, model, clock, out>>

----------------------------------------------------------------------------
(* RulesEngine *)

\* _create_feedback
Feedback(type, message, about, confidence, priority, actionable) ==
    [type |-> type, message |-> message, about |-> about,
     confidence |-> confidence, priority |-> priority, actionable |-> actionable]

Detection(class, bbox, confidence) ==
    [keys |-> {"bbox", "class", "confidence"}, class |-> class, bbox |-> bbox,
     confidence |-> confidence]
\* a detection without its "class" key
DetectionNoClass(bbox, confidence) ==
    [keys |-> {"bbox", "confidence"}, class |-> "", bbox |-> bbox, confidence |-> confidence]

\* bbox[3] - bbox[1] of (x1, y1, x2, y2)
BboxHeight(bbox) == bbox[4] - bbox[2]

\* proportion_rules
IdealRatio(class) == IF class = "shirt" THEN Rat(4, 10) ELSE Rat(6, 10)
Tolerance(class) == Rat(1, 10)

FindPersonFirst(detections, i) ==
    [raised |-> FALSE, index |-> IF i <= Len(detections) THEN i ELSE 0]

\* _find_person_detection: the index of the first "person", 0 for None; reading
\* detection["class"] raises KeyError on the way if the key is missing
RECURSIVE FindPerson(_, _)
FindPerson(detections, i) ==
    IF i > Len(detections) THEN [raised |-> FALSE, index |-> 0]
    ELSE IF "class" \notin detections[i].keys THEN [raised |-> TRUE, index |-> 0]
    ELSE IF detections[i].class = "person" THEN [raised |-> FALSE, index |-> i]
    ELSE FindPerson(detections, i + 1)

\* abs(garment_ratio - ideal_ratio) > tolerance, as IEEE double arithmetic
\* decides it.  For the quotients of two integers below 40 it is what exact
\* arithmetic gives, except at the ratio 0.3 of a shirt: 0.3 - 0.4 is
\* -0.10000000000000003 in doubles, which exceeds the tolerance 0.1.  (At 0.5
\* for a shirt and at 0.5 and 0.7 for pants the difference is
\* 0.09999999999999998.)
ExceedsTolerance(class, garment_ratio) ==
    \/ RGt(RAbs(RSub(garment_ratio, IdealRatio(class))), Tolerance(class))
    \/ class = "shirt" /\ garment_ratio = Rat(3, 10)

\* the body of the loop of _analyze_garment_proportions for one shirt or pants
ProportionItem(class, garment_ratio) ==
    IF ExceedsTolerance(class, garment_ratio)
    THEN IF RGt(garment_ratio, RAdd(IdealRatio(class), Tolerance(class)))
         THEN Feedback("proportion", "appears too long for your body proportions", class,
                       Rat(8, 10), "medium", TRUE)
         ELSE Feedback("proportion", "appears too short for your body proportions", class,
                       Rat(8, 10), "medium", TRUE)
    ELSE Feedback("proportion", "is well-proportioned for your body", class,
                  Rat(9, 10), "low", FALSE)

GarmentProportionsSkipZero(detections, person_height, i) ==
    LET garments == SelectSeq(detections, LAMBDA d : d.class \in {"shirt", "pants"})
    IN  [raised |-> FALSE,
         feedback |-> IF person_height = 0 THEN <<>>
                      ELSE [k \in 1..Len(garments) |->
                               ProportionItem(garments[k].class,
                                   Rat(BboxHeight(garments[k].bbox), person_height))]]

\* _analyze_garment_proportions from detection i on: raised is TRUE when the loop
\* hits KeyError (no "class") or ZeroDivisionError (person_height = 0)
RECURSIVE GarmentProportions(_, _, _)
GarmentProportions(detections, person_height, i) ==
    IF i > Len(detections) THEN [raised |-> FALSE, feedback |-> <<>>]
    ELSE LET d == detections[i]
             rest == GarmentProportions(detections, person_height, i + 1)
         IN  IF "class" \notin d.keys THEN [raised |-> TRUE, feedback |-> <<>>]
             ELSE IF d.class \in {"shirt", "pants", "dress"}
             THEN IF person_height = 0 THEN [raised |-> TRUE, feedback |-> <<>>]
                  ELSE IF d.class = "dress" THEN rest
                  ELSE [rest EXCEPT !.feedback =
                            <<ProportionItem(d.class,
                                  Rat(BboxHeight(d.bbox), person_height))>> \o @]
             ELSE rest

\* the body of the loop of _analyze_fit_quality for one shirt, pants or dress
FitItem(class, confidence) ==
    IF RGt(confidence, Rat(9, 10))
    THEN Feedback("fit", "appears to fit well", class, Rat(85, 100), "low", FALSE)
    ELSE IF RGt(confidence, Rat(7, 10))
    THEN Feedback("fit", "fit could be improved", class, Rat(75, 100), "medium", TRUE)
    ELSE Feedback("fit", "doesn't appear to fit properly", class, Rat(65, 100), "high", TRUE)

\* user_prefs.get("fit_preferences", "fitted") if user_prefs else "fitted"
FitPreference(user_prefs) ==
    IF user_prefs.given THEN user_prefs.fit_preferences ELSE "fitted"

FitQualityReversed(detections, user_prefs, i) ==
    LET garments == SelectSeq(detections, LAMBDA d : d.class \in {"shirt", "pants", "dress"})
        n == Len(garments)
    IN  [k \in 1..n |-> FitItem(garments[n + 1 - k].class, garments[n + 1 - k].confidence)]

FitQualityByPreference(detections, user_prefs, i) ==
    LET garments == SelectSeq(detections, LAMBDA d : d.class \in {"shirt", "pants", "dress"})
        slack == IF FitPreference(user_prefs) = "fitted" THEN Zero ELSE Rat(1, 10)
    IN  [k \in 1..Len(garments) |->
            FitItem(garments[k].class, RAdd(garments[k].confidence, slack))]

\* _analyze_fit_quality from detection i on: the fit preference is read from
\* user_prefs and takes no part in the items
RECURSIVE FitQuality(_, _, _)
FitQuality(detections, user_prefs, i) ==
    LET fit_preference == FitPreference(user_prefs)
    IN  IF i > Len(detections) THEN <<>>
        ELSE LET d == detections[i]
             IN  IF d.class \in {"shirt", "pants", "dress"}
                 THEN <<FitItem(d.class, d.confidence)>>
                          \o FitQuality(detections, user_prefs, i + 1)
                 ELSE FitQuality(detections, user_prefs, i + 1)

\* garment_types: the classes of the detections that are garments, one per detection
GarmentTypes(detections) ==
    SelectSeq([i \in 1..Len(detections) |-> detections[i].class],
              LAMBDA c : c \in {"shirt", "pants", "dress", "skirt", "jacket"})

InSeq(x, seq) == \E i \in 1..Len(seq) : seq[i] = x

\* _analyze_outfit_balance
OutfitBalance(detections) ==
    LET garment_types == GarmentTypes(detections)
    IN  IF Len(garment_types) >= 2
        THEN (IF InSeq("shirt", garment_types) /\ InSeq("pants", garment_types)
              THEN <<Feedback("style", "Good basic outfit coordination with shirt and pants", "",
                              Rat(8, 10), "low", FALSE)>>
              ELSE IF InSeq("dress", garment_types)
              THEN <<Feedback("style", "Dress provides a cohesive, coordinated look", "",
                              Rat(85, 100), "low", FALSE)>>
              ELSE <<>>)
             \o
             (IF InSeq("jacket", garment_types)
              THEN <<Feedback("style", "Good use of layering with the jacket", "",
                              Rat(8, 10), "medium", FALSE)>>
              ELSE <<>>)
        ELSE <<Feedback("style", "Consider adding more pieces for a complete outfit", "",
                        Rat(7, 10), "medium", TRUE)>>

\* the except branch of analyze_proportions
ProportionsExcept(r) ==
    [raised |-> FALSE,
     feedback |-> <<Feedback("general", "Error analyzing proportions", "",
                             Rat(5, 10), "low", TRUE)>>]

\* analyze_proportions(detections, segmentation_results, user_prefs)
AnalyzeProportions(detections, segmentation_results, user_prefs) ==
    LET person == FindPerson(detections, 1)
        person_height == BboxHeight(detections[person.index].bbox)
        garment == GarmentProportions(detections, person_height, 1)
    IN  IF person.raised THEN ProportionsExcept([raised |-> TRUE, feedback |-> <<>>])
        ELSE IF person.index = 0
        THEN [raised |-> FALSE,
              feedback |-> <<Feedback("general", "No person detected in the image", "",
                                      Rat(5, 10), "low", TRUE)>>]
        ELSE IF garment.raised THEN ProportionsExcept([raised |-> TRUE, feedback |-> <<>>])
        ELSE [raised |-> FALSE,
              feedback |-> garment.feedback \o FitQuality(detections, user_prefs, 1)
                           \o OutfitBalance(detections)]

\* the detections the calls are made with
DetectionPool ==
    {Detection("person", <<0, 0, 4, 10>>, Rat(95, 100)),
     Detection("person", <<0, 3, 4, 3>>, Rat(5, 10)),
     Detection("shirt", <<0, 1, 4, 6>>, Rat(95, 100)),
     Detection("shirt", <<0, 1, 4, 7>>, Rat(9, 10)),
     Detection("shirt", <<0, 1, 4, 3>>, Rat(7, 10)),
     Detection("shirt", <<0, 1, 4, 4>>, Rat(8, 10)),
     Detection("shirt", <<0, 1, 4, 5>>, Rat(8, 10)),
     Detection("pants", <<0, 3, 4, 10>>, Rat(8, 10)),
     Detection("pants", <<0, 2, 4, 10>>, Rat(6, 10)),
     Detection("pants", <<0, 6, 4, 10>>, Rat(91, 100)),
     Detection("pants", <<0, 5, 4, 10>>, Rat(8, 10)),
     Detection("pants", <<0, 4, 4, 10>>, Rat(8, 10)),
     Detection("dress", <<0, 1, 4, 9>>, Rat(95, 100)),
     Detection("jacket", <<0, 1, 4, 6>>, Rat(8, 10)),
     Detection("skirt", <<0, 5, 4, 8>>, Rat(8, 10)),
     Detection("hat", <<1, 0, 3, 1>>, Rat(6, 10)),
     DetectionNoClass(<<0, 0, 1, 1>>, Rat(5, 10))}

\* one detection of each class
ClassPool ==
    {Detection("person", <<0, 0, 4, 10>>, Rat(95, 100)),
     Detection("shirt", <<0, 1, 4, 5>>, Rat(8, 10)),
     Detection("pants", <<0, 4, 4, 10>>, Rat(8, 10)),
     Detection("dress", <<0, 1, 4, 9>>, Rat(95, 100)),
     Detection("jacket", <<0, 1, 4, 6>>, Rat(8, 10)),
     Detection("skirt", <<0, 5, 4, 8>>, Rat(8, 10)),
     Detection("hat", <<1, 0, 3, 1>>, Rat(6, 10))}

MaxDetections == 4      \* length of a detection list over ClassPool
MaxVaried == 2          \* length of a detection list over DetectionPool

\* the sequences over S of length at most n
SeqsUpTo(S, n) == UNION {[1..k -> S] : k \in 0..n}

\* the detection lists the calls are made with: short ones of every geometry and
\* confidence, longer ones of every composition of classes
DetectionLists ==
    SeqsUpTo(DetectionPool, MaxVaried) \cup SeqsUpTo(ClassPool, MaxDetections)

UserPrefs ==
    {[given |-> FALSE, fit_preferences |-> "", occasion |-> ""],
     [given |-> TRUE, fit_preferences |-> "loose", occasion |-> "casual"],
     [given |-> TRUE, fit_preferences |-> "oversized", occasion |-> "formal"]}

\* one analyze_proportions call: it awaits only the engine's own helpers, so it
\* is one step; the engine keeps no state between calls, so one call per
\* behaviour shows all there is to see
CallAnalyzeProportions(detections, segmentation_results, user_prefs) ==
    /\ service = "rules_engine"
    /\ out.op = "none"
    /\ out' = [op |-> "analyze_proportions", detections |-> detections,
               segmentation_results |-> segmentation_results, user_prefs |-> user_prefs,
               result |-> AnalyzeProportions(detections, segmentation_results, user_prefs)]
    /\ UNCHANGED <<service, clip_service, model, style_cache, clock, ncalls, calls>>

----------------------------------------------------------------------------
(* ColorService.  A frame is an image one pixel wide: the sequence of its   *)
(* rows, each an HSV pixel <<h, s, v>> as cv2.cvtColor gives it.  The rgb   *)
(* and hex renderings of a color are left out of the color records.         *)

Frame(pixels) == [decodable |-> TRUE, pixels |-> pixels]
\* bytes that PIL cannot open
UndecodableFrame == [decodable |-> FALSE, pixels |-> <<>>]

SkinPixel == <<15, 100, 200>>
DarkSkinPixel == <<9, 60, 50>>
BluePixel == <<110, 200, 200>>
GreenPixel == <<60, 200, 150>>
GreyPixel == <<0, 0, 128>>

Frames ==
    {UndecodableFrame,
     Frame(<<BluePixel, BluePixel, GreenPixel, GreyPixel>>),
     Frame(<<SkinPixel, BluePixel, BluePixel, GreenPixel>>),
     Frame(<<SkinPixel, DarkSkinPixel, GreenPixel, GreenPixel>>),
     Frame(<<DarkSkinPixel, DarkSkinPixel, DarkSkinPixel, BluePixel>>)}

\* cv2.inRange(hsv_image, [0, 20, 20], [30, 255, 255])
InSkinRange(px) == px[1] >= 0 /\ px[1] <= 30 /\ px[2] >= 20 /\ px[2] <= 255
                   /\ px[3] >= 20 /\ px[3] <= 255

\* np.mean of one channel of a non-empty pixel list
ChannelMean(pixels, ch) == RMean([i \in 1..Len(pixels) |-> Rat(pixels[i][ch], 1)])

\* _classify_skin_tone
ClassifySkinTone(hue, sat, val) ==
    IF RGt(val, Rat(60, 1)) THEN "light"
    ELSE IF RGt(val, Rat(40, 1)) THEN "medium"
    ELSE "dark"

\* _analyze_skin_tone
AnalyzeSkinTone(pixels) ==
    LET skin_pixels == SelectSeq(pixels, InSkinRange)
    IN  IF Len(skin_pixels) = 0
        THEN [detected |-> FALSE, tone |-> "unknown", hsv |-> <<>>]
        ELSE LET avg_hue == ChannelMean(skin_pixels, 1)
                 avg_sat == ChannelMean(skin_pixels, 2)
                 avg_val == ChannelMean(skin_pixels, 3)
             IN  [detected |-> TRUE, tone |-> ClassifySkinTone(avg_hue, avg_sat, avg_val),
                  hsv |-> <<avg_hue, avg_sat, avg_val>>]

IMin(a, b) == IF a < b THEN a ELSE b

\* hsv_image[y1:y2, x1:x2] of the one-column image, as a list of pixels
GarmentRegion(pixels, bbox) ==
    IF bbox[1] = 0 /\ bbox[3] >= 1
    THEN SubSeq(pixels, bbox[2] + 1, IMin(bbox[4], Len(pixels)))
    ELSE <<>>

\* the distinct colors of a region, in the order of their first appearance
RECURSIVE DistinctColors(_)
DistinctColors(region) ==
    IF region = <<>> THEN <<>>
    ELSE LET front == DistinctColors(SubSeq(region, 1, Len(region) - 1))
             last == region[Len(region)]
         IN  IF InSeq(last, front) THEN front ELSE Append(front, last)

\* KMeans(n_clusters=3).fit(pixels).cluster_centers_ for a region of at most
\* three distinct colors: every distinct color is a center; the library decides
\* the order of the centers (`order`, a permutation of 1..3), not the sizes of
\* the clusters
KMeansCenters(region, order) ==
    LET distinct == DistinctColors(region)
        padded == [i \in 1..3 |-> IF i <= Len(distinct) THEN distinct[i] ELSE distinct[1]]
    IN  [i \in 1..3 |-> padded[order[i]]]

ColorSample(px) == [hsv |-> <<Rat(px[1], 1), Rat(px[2], 1), Rat(px[3], 1)>>]

\* _extract_dominant_colors: KMeans raises ValueError on fewer than 3 samples,
\* and the except branch returns []
ExtractDominantColors(region, order) ==
    IF Len(region) < 3 THEN <<>>
    ELSE LET centers == KMeansCenters(region, order)
         IN  [i \in 1..3 |-> ColorSample(centers[i])]

\* _analyze_garment_colors from segmentation result i on: a result without
\* "bbox" or "class" raises KeyError inside the loop's try and is skipped.
\* primary_color is a list of at most one color: empty for None
RECURSIVE AnalyzeGarmentColors(_, _, _, _)
AnalyzeGarmentColors(pixels, segmentation_results, order, i) ==
    IF i > Len(segmentation_results) THEN <<>>
    ELSE LET seg == segmentation_results[i]
             rest == AnalyzeGarmentColors(pixels, segmentation_results, order, i + 1)
             dominant_colors == ExtractDominantColors(GarmentRegion(pixels, seg.bbox), order)
         IN  IF ~({"bbox", "class"} \subseteq seg.keys) THEN rest
             ELSE <<[class |-> seg.class, colors |-> dominant_colors,
                     primary_color |-> IF dominant_colors = <<>> THEN <<>>
                                       ELSE <<dominant_colors[1]>>]>> \o rest

\* hue_diff = abs(h1 - h2), and 360 - hue_diff when that is over 180
HueDiffLinear(h1, h2) == RAbs(RSub(h1, h2))
HueDiffSigned(h1, h2) ==
    LET d == RSub(h1, h2)
    IN  IF RGt(d, Rat(180, 1)) THEN RSub(Rat(360, 1), d) ELSE d
HueDiff(h1, h2) ==
    LET d == RAbs(RSub(h1, h2))
    IN  IF RGt(d, Rat(180, 1)) THEN RSub(Rat(360, 1), d) ELSE d

\* _calculate_harmony_score
CalculateHarmonyScore(color1_hsv, color2_hsv) ==
    LET hue_diff == HueDiff(color1_hsv[1], color2_hsv[1])
        sat_diff == RDiv(RAbs(RSub(color1_hsv[2], color2_hsv[2])), Rat(255, 1))
        val_diff == RDiv(RAbs(RSub(color1_hsv[3], color2_hsv[3])), Rat(255, 1))
        harmony_score ==
            IF RLe(hue_diff, Rat(30, 1)) THEN Rat(9, 10)
            ELSE IF RLe(RAbs(RSub(hue_diff, Rat(180, 1))), Rat(30, 1)) THEN Rat(8, 10)
            ELSE IF RLe(RAbs(RSub(hue_diff, Rat(120, 1))), Rat(30, 1)) THEN Rat(7, 10)
            ELSE Rat(5, 10)
        adjusted ==
            IF RLt(sat_diff, Rat(3, 10)) /\ RLt(val_diff, Rat(3, 10))
            THEN RAdd(harmony_score, Rat(1, 10))
            ELSE harmony_score
    IN  RMin(adjusted, One)

ClassifyHarmonyTypeInclusive(score) ==
    IF RLe(Rat(8, 10), score) THEN "excellent"
    ELSE IF RLe(Rat(7, 10), score) THEN "good"
    ELSE IF RLe(Rat(6, 10), score) THEN "neutral"
    ELSE "poor"

ClassifyHarmonyTypeNoNeutral(score) ==
    IF RGt(score, Rat(8, 10)) THEN "excellent"
    ELSE IF RGt(score, Rat(6, 10)) THEN "good"
    ELSE "poor"

\* _classify_harmony_type
ClassifyHarmonyType(score) ==
    IF RGt(score, Rat(8, 10)) THEN "excellent"
    ELSE IF RGt(score, Rat(7, 10)) THEN "good"
    ELSE IF RGt(score, Rat(6, 10)) THEN "neutral"
    ELSE "poor"

\* _generate_color_feedback: the template chosen, with the names it is filled with
GenerateColorFeedback(skin_tone, garment_class, harmony_score) ==
    [message |-> IF RGt(harmony_score, Rat(8, 10)) THEN "color works beautifully with your skin tone"
                 ELSE IF RGt(harmony_score, Rat(7, 10)) THEN "color complements your skin tone well"
                 ELSE IF RGt(harmony_score, Rat(6, 10)) THEN "color is acceptable with your skin tone"
                 ELSE "Consider a different color",
     garment_class |-> garment_class, skin_tone |-> skin_tone]

\* the garments of garment_colors that have a primary color, in order
WithPrimary(garment_colors) == SelectSeq(garment_colors, LAMBDA g : g.primary_color # <<>>)

AnalyzeColorHarmonyBest(skin_tone, garment_colors) ==
    IF ~skin_tone.detected
    THEN [overall_score |-> Rat(5, 10), individual_scores |-> <<>>,
          feedback |-> <<[message |-> "Unable to detect skin tone for color analysis",
                          garment_class |-> "", skin_tone |-> ""]>>,
          harmony_type |-> "unknown"]
    ELSE LET scored == WithPrimary(garment_colors)
             harmony_scores == [i \in 1..Len(scored) |->
                 CalculateHarmonyScore(skin_tone.hsv, scored[i].primary_color[1].hsv)]
             overall_score == IF Len(scored) > 0 THEN RMax(harmony_scores) ELSE Rat(7, 10)
         IN  [overall_score |-> overall_score,
              individual_scores |-> harmony_scores,
              feedback |-> [i \in 1..Len(scored) |->
                  GenerateColorFeedback(skin_tone.tone, scored[i].class, harmony_scores[i])],
              harmony_type |-> ClassifyHarmonyType(overall_score)]

\* _analyze_color_harmony (the undetected branch returns no individual_scores)
AnalyzeColorHarmony(skin_tone, garment_colors) ==
    IF ~skin_tone.detected
    THEN [overall_score |-> Rat(5, 10), individual_scores |-> <<>>,
          feedback |-> <<[message |-> "Unable to detect skin tone for color analysis",
                          garment_class |-> "", skin_tone |-> ""]>>,
          harmony_type |-> "unknown"]
    ELSE LET scored == WithPrimary(garment_colors)
             harmony_scores == [i \in 1..Len(scored) |->
                 CalculateHarmonyScore(skin_tone.hsv, scored[i].primary_color[1].hsv)]
             overall_score == IF Len(scored) > 0 THEN RMean(harmony_scores) ELSE Rat(7, 10)
         IN  [overall_score |-> overall_score,
              individual_scores |-> harmony_scores,
              feedback |-> [i \in 1..Len(scored) |->
                  GenerateColorFeedback(skin_tone.tone, scored[i].class, harmony_scores[i])],
              harmony_type |-> ClassifyHarmonyType(overall_score)]

\* _mock_color_analysis
MockColorAnalysis ==
    LET mock_color == [hsv |-> <<Rat(210, 1), Rat(80, 1), Rat(90, 1)>>]
    IN  [skin_tone |-> [detected |-> TRUE, tone |-> "medium",
                        hsv |-> <<Rat(15, 1), Rat(60, 1), Rat(70, 1)>>],
         garment_colors |-> <<[class |-> "shirt", colors |-> <<mock_color>>,
                               primary_color |-> <<mock_color>>]>>,
         harmony_analysis |->
             [overall_score |-> Rat(75, 100), individual_scores |-> <<Rat(75, 100)>>,
              feedback |-> <<[message |-> "color complements your skin tone well",
                              garment_class |-> "shirt", skin_tone |-> "medium"]>>,
              harmony_type |-> "good"],
         overall_score |-> Rat(75, 100)]

\* the except branch of analyze_colors
ColorsExcept(r) == [raised |-> FALSE, value |-> MockColorAnalysis]

\* analyze_colors(frame, segmentation_results)
AnalyzeColors(frame, segmentation_results, order) ==
    IF ~frame.decodable THEN ColorsExcept([raised |-> TRUE])      \* Image.open raises
    ELSE LET skin_tone == AnalyzeSkinTone(frame.pixels)
             garment_colors == AnalyzeGarmentColors(frame.pixels, segmentation_results, order, 1)
             harmony_analysis == AnalyzeColorHarmony(skin_tone, garment_colors)
         IN  [raised |-> FALSE,
              value |-> [skin_tone |-> skin_tone, garment_colors |-> garment_colors,
                         harmony_analysis |-> harmony_analysis,
                         overall_score |-> harmony_analysis.overall_score]]

\* the orders in which KMeans may return its three centers
CenterOrders == {<<1, 2, 3>>, <<2, 1, 3>>, <<3, 2, 1>>, <<2, 3, 1>>}

\* one analyze_colors call: it awaits only the service's own helpers, so it is
\* one step; the service keeps no state between calls
CallAnalyzeColors(frame, segmentation_results, order) ==
    /\ service = "color_service"
    /\ out.op = "none"
    /\ out' = [op |-> "analyze_colors", frame |-> frame,
               segmentation_results |-> segmentation_results, order |-> order,
               result |-> AnalyzeColors(frame, segmentation_results, order)]
    /\ UNCHANGED <<service, clip_service, model, style_cache, clock, ncalls, calls>>

\* the colors _calculate_harmony_score is called with: hues on both sides of
\* every breakpoint of the hue rules, saturations and values on both sides of
\* the 0.3 * 255 breakpoint
HsvColors ==
    {ColorSample(<<h, s, v>>).hsv :
        h \in {0, 10, 30, 31, 120, 150, 180, 211, 350}, s \in {0, 76, 77}, v \in {100, 177}}

\* one _calculate_harmony_score call
CallCalculateHarmonyScore(color1_hsv, color2_hsv) ==
    /\ service = "color_service"
    /\ out.op = "none"
    /\ out' = [op |-> "_calculate_harmony_score",
               color1_hsv |-> color1_hsv, color2_hsv |-> color2_hsv,
               result |-> [raised |-> FALSE,
                           value |-> CalculateHarmonyScore(color1_hsv, color2_hsv)]]
    /\ UNCHANGED <<service, clip_service, model, style_cache, clock, ncalls, calls>>

\* the scores the two classifiers are called with: the breakpoints and values
\* on both sides of each
HarmonyScores ==
    {Rat(5, 10), Rat(6, 10), Rat(65, 100), Rat(7, 10), Rat(75, 100), Rat(8, 10),
     Rat(85, 100), Rat(9, 10), One}

\* one _classify_harmony_type call
CallClassifyHarmonyType(score) ==
    /\ service = "color_service"
    /\ out.op = "none"
    /\ out' = [op |-> "_classify_harmony_type", score |-> score,
               result |-> [raised |-> FALSE, value |-> ClassifyHarmonyType(score)]]
    /\ UNCHANGED <<service, clip_service, model, style_cache, clock, ncalls, calls>>

\* one _generate_color_feedback call
CallGenerateColorFeedback(skin_tone, garment_class, harmony_score) ==
    /\ service = "color_service"
    /\ out.op = "none"
    /\ out' = [op |-> "_generate_color_feedback", score |-> harmony_score,
               result |-> [raised |-> FALSE,
                           value |-> GenerateColorFeedback(skin_tone, garment_class,
                                                           harmony_score)]]
    /\ UNCHANGED <<service, clip_service, model, style_cache, clock, ncalls, calls>>

----------------------------------------------------------------------------
(* The feedback rules of match_style, on the similarities that                *)
(* compute_image_similarity may return for the references of a style         *)

SimilarityValues ==
    {Rat(-1, 1), Rat(3, 10), Rat(5, 10), Rat(6, 10), Rat(7, 10), Rat(8, 10), One}

MaxSimilarities == 2    \* reference embeddings of the style

SimilarityLists == UNION {[1..k -> SimilarityValues] : k \in 1..MaxSimilarities}

\* lines 46-67 of match_style on one list of similarities
CallOverallFeedback(similarities) ==
    /\ service = "style_feedback"
    /\ out.op = "none"
    /\ out' = [op |-> "overall_feedback", similarities |-> similarities,
               result |-> [raised |-> FALSE, value |-> OverallFeedback(similarities)]]
    /\ UNCHANGED <<service, clip_service, model, style_cache, clock, ncalls, calls>>

\* lines 163-181 of _analyze_garment_style_match on one list of similarities
CallGarmentFeedback(garment_class, similarities) ==
    /\ service = "style_feedback"
    /\ out.op = "none"
    /\ out' = [op |-> "garment_feedback", garment_class |-> garment_class,
               similarities |-> similarities,
               result |-> [raised |-> FALSE,
                           value |-> GarmentFeedback(garment_class, similarities)]]
    /\ UNCHANGED <<service, clip_service, model, style_cache, clock, ncalls, calls>>

----------------------------------------------------------------------------
(* Environment of the StyleEngine *)

\* StyleEngine.initialize(clip_service), with a CLIPService whose model is m
\* (the model of a service the engine does not hold yet is not part of the state)
Initialize(m) ==
    /\ service = "style_engine"
    /\ clip_service = "None"
    /\ clip_service' = "CLIPService"
    /\ model' = m
    /\ UNCHANGED <<service, style_cache, clock, ncalls, calls, out>>

\* CLIPService.load_model succeeds on the engine's service (on failure model stays None)
LoadModel ==
    /\ service = "style_engine"
    /\ clip_service # "None"
    /\ model = "None"
    /\ model' = "CLIPModel"
    /\ UNCHANGED <<service, clip_service, style_cache, clock, ncalls, calls, out>>

NoOutput == [op |-> "none"]

Init ==
    /\ service \in Services
    /\ clip_service = "None"
    /\ model = "None"
    /\ style_cache = <<>>
    /\ clock = 0
    /\ ncalls = 0
    /\ calls = [p \in Procs |-> IdleCall]
    /\ out = NoOutput

\* the identifiers a call is made with or draws: they are interchangeable, so
\* the first call of a behaviour takes the first
CallIds == IF ncalls = 0 THEN {id \in UuidIds : id.n = 1} ELSE UuidIds

StyleNext ==
    \/ \E m \in {"None", "CLIPModel"} : Initialize(m)
    \/ LoadModel
    \/ \E p \in Procs, sid \in CallIds, segs \in MatchSegLists : CallMatchStyle(p, sid, segs)
    \/ \E p \in Procs : MatchEncoded(p)
    \/ \E p \in Procs : MatchSimilarity(p)
    \/ \E p \in Procs : MatchGarmentSimilarity(p)
    \/ \E p \in Procs, urls \in UrlLists, uuid \in CallIds, t \in clock..MaxClock :
            CallCreateStyleProfile(p, urls, uuid, t)
    \/ \E p \in Procs : CreateEncoded(p)
    \/ \E p \in Procs, sid \in CallIds, urls \in UrlLists : CallUpdateStyleProfile(p, sid, urls)
    \/ \E p \in Procs : UpdateEncoded(p)
    \/ \E p \in Procs, sid \in CallIds : CallDeleteStyleProfile(p, sid)

RulesNext ==
    /\ service = "rules_engine" /\ out.op = "none"
    /\ \E detections \in DetectionLists,
          segs \in SegLists, prefs \in UserPrefs :
            CallAnalyzeProportions(detections, segs, prefs)

ColorNext ==
    /\ service = "color_service" /\ out.op = "none"
    /\ \/ \E frame \in Frames, segs \in SegLists, order \in CenterOrders :
              CallAnalyzeColors(frame, segs, order)
       \/ \E color1_hsv \in HsvColors, color2_hsv \in HsvColors :
              CallCalculateHarmonyScore(color1_hsv, color2_hsv)
       \/ \E score \in HarmonyScores : CallClassifyHarmonyType(score)
       \/ \E skin_tone \in {"light", "medium", "dark"}, garment_class \in {"shirt", "pants"},
             score \in HarmonyScores :
              CallGenerateColorFeedback(skin_tone, garment_class, score)

FeedbackNext ==
    /\ service = "style_feedback" /\ out.op = "none"
    /\ \/ \E similarities \in SimilarityLists : CallOverallFeedback(similarities)
       \/ \E garment_class \in {"shirt", "pants"}, similarities \in SimilarityLists :
              CallGarmentFeedback(garment_class, similarities)

Next == StyleNext \/ RulesNext \/ ColorNext \/ FeedbackNext

Spec == Init /\ [][Next]_vars


----------------------------------------------------------------------------
(* Properties *)

\* the step in which p's call returns
Returns(p) ==
    /\ calls'[p].pc = "done"
    /\ calls[p].pc # "done" \/ calls[p].seq # calls'[p].seq

Done(p, op) == calls[p].op = op /\ calls[p].pc = "done"

\* the embeddings are those of the URLs, one per URL and in their order
EmbeddingsOf(embeddings, image_urls) ==
    /\ Len(embeddings) = Len(image_urls)
    /\ \A k \in 1..Len(image_urls) :
          embeddings[k] \in {MockEmbedding, ImageFeatures(image_urls[k])}

\* C1 (as claimed): match_style on a style_id that is not in the cache returns
\* exactly the one item "No reference style found" with confidence 0.0.
C1_NoReferenceWhenAbsent ==
    \A p \in Procs :
        (Done(p, "match_style") /\ ~calls[p].present)
            => calls[p].feedback = <<NoReferenceFeedback>>

\* C2: when create_style_profile returns the identifier it allocated (it hit no
\* internal error), the cache holds under that identifier exactly one embedding
\* per URL, in URL order.
C2_CreateStoresOnePerUrl ==
    [][\A p \in Procs :
         (Returns(p) /\ calls'[p].op = "create_style_profile"
                     /\ calls'[p].ret_id.kind = "uuid4")
            => /\ calls'[p].ret_id \in DOMAIN style_cache'
               /\ EmbeddingsOf(style_cache'[calls'[p].ret_id], calls'[p].image_urls)]_vars

C2_Witness ==
    \E p \in Procs :
        /\ Done(p, "create_style_profile") /\ calls[p].ret_id.kind = "uuid4"
        /\ calls[p].image_urls = <<U1, U2>>
        /\ calls[p].ret_id \in DOMAIN style_cache
        /\ style_cache[calls[p].ret_id] = <<ImageFeatures(U1), ImageFeatures(U2)>>

\* C3: in the step in which update_style_profile(style_id, urls) returns True,
\* the entry of style_id becomes what the cache held under it (nothing, if the
\* id was absent) followed by the newly generated embeddings, one per URL, and
\* no other identifier's entry changes, appears or disappears.  The call reads
\* and writes the cache in this one step, so what the cache held "before the
\* call" is what this step finds.
C3_UpdateAppends ==
    [][\A p \in Procs :
         (Returns(p) /\ calls'[p].op = "update_style_profile" /\ calls'[p].ret_ok)
            => LET sid == calls'[p].style_id
                   new == calls'[p].embeddings
               IN  /\ EmbeddingsOf(new, calls'[p].image_urls)
                   /\ DOMAIN style_cache' = DOMAIN style_cache \cup {sid}
                   /\ style_cache'[sid] = Entry(style_cache, sid) \o new
                   /\ \A k \in DOMAIN style_cache \ {sid} :
                          style_cache'[k] = style_cache[k]]_vars

C3_Witness ==
    \E p \in Procs :
        /\ Done(p, "update_style_profile") /\ calls[p].ret_ok
        /\ calls[p].present /\ calls[p].pre # <<>> /\ calls[p].embeddings # <<>>
        /\ style_cache[calls[p].style_id] = calls[p].pre \o calls[p].embeddings

\* C4: delete_style_profile returns True and raises nothing; on an identifier
\* that is not in the cache it leaves the cache as it is, on one that is there it
\* removes that entry and no other, and deleting once more changes nothing.
C4_DeleteIdempotent ==
    [][\A p \in Procs :
         (Returns(p) /\ calls'[p].op = "delete_style_profile")
            => LET sid == calls'[p].style_id
               IN  /\ calls'[p].ret_ok /\ ~calls'[p].raised
                   /\ sid \notin DOMAIN style_cache => style_cache' = style_cache
                   /\ sid \in DOMAIN style_cache =>
                          /\ DOMAIN style_cache' = DOMAIN style_cache \ {sid}
                          /\ \A k \in DOMAIN style_cache' : style_cache'[k] = style_cache[k]
                   /\ DeleteFrom(style_cache', sid) = style_cache']_vars

C4_Witness ==
    \E p \in Procs :
        /\ Done(p, "delete_style_profile") /\ calls[p].ret_ok
        /\ calls[p].present /\ calls[p].pre # <<>>
        /\ calls[p].style_id \notin DOMAIN style_cache

\* C5 (as claimed): the list a successful create_style_profile stored is never
\* empty; a create with zero URLs does not succeed.
C5_CreateNeverStoresEmpty ==
    \A p \in Procs :
        (Done(p, "create_style_profile") /\ calls[p].ret_id.kind = "uuid4")
            => calls[p].image_urls # <<>> /\ calls[p].embeddings # <<>>

\* C6 (as claimed), for the calls it names last: two create_style_profile calls
\* that take the internal-error path never return the same identifier.
C6_CreateIdsDiffer ==
    \A p, q \in Procs :
        (/\ p # q
         /\ Done(p, "create_style_profile") /\ Done(q, "create_style_profile")
         /\ calls[p].ret_id.kind = "time" /\ calls[q].ret_id.kind = "time")
            => calls[p].ret_id # calls[q].ret_id

\* C7: no lost update.  When the last two calls made are two
\* update_style_profile calls on the same style_id, no other call was in flight
\* when the first of them was made, and both have returned True, the entry is
\* what it held before the first of them was made, followed by the new
\* embeddings of both, each call's in one piece, in either order.
C7_NoLostUpdate ==
    \A p, q \in Procs :
        (/\ Done(p, "update_style_profile") /\ Done(q, "update_style_profile")
         /\ calls[p].ret_ok /\ calls[q].ret_ok
         /\ calls[p].style_id = calls[q].style_id
         /\ calls[p].alone
         /\ calls[p].seq + 1 = calls[q].seq /\ calls[q].seq = ncalls)
            => LET sid == calls[p].style_id
                   before == calls[p].pre
                   n1 == calls[p].embeddings
                   n2 == calls[q].embeddings
               IN  /\ sid \in DOMAIN style_cache
                   /\ style_cache[sid] \in {before \o n1 \o n2, before \o n2 \o n1}

\* both updates were in flight together: the second was made before the first
\* wrote, and the first made wrote last
C7_Witness ==
    \E p, q \in Procs :
        /\ Done(p, "update_style_profile") /\ Done(q, "update_style_profile")
        /\ calls[p].ret_ok /\ calls[q].ret_ok
        /\ calls[p].style_id = calls[q].style_id
        /\ calls[p].alone
        /\ calls[p].seq + 1 = calls[q].seq /\ calls[q].seq = ncalls
        /\ calls[p].embeddings = <<ImageFeatures(U1), ImageFeatures(U2)>>
        /\ calls[q].embeddings = <<ImageFeatures(U1)>>
        /\ style_cache[calls[p].style_id] = calls[q].embeddings \o calls[p].embeddings

\* C8: no public operation lets an exception escape, whatever the input and the
\* state of the embedding collaborator: every call that has returned has
\* returned a value (feedback items, an identifier, a boolean, a report).
C8_NoExceptionEscapes ==
    /\ \A p \in Procs :
          calls[p].pc = "done" =>
              /\ ~calls[p].raised
              /\ calls[p].op = "match_style" => Len(calls[p].feedback) >= 1
              /\ calls[p].op = "create_style_profile" => calls[p].ret_id.kind \in {"uuid4", "time"}
    /\ out.op # "none" => ~out.result.raised

\* match_style on an engine that was never initialized
C8_Witness ==
    \E p \in Procs :
        /\ Done(p, "match_style") /\ clip_service = "None"
        /\ calls[p].feedback[1].message = "Style matching unavailable"

\* C9 (as claimed): every confidence of a returned feedback item and the
\* overall_score of a color report lie in [0, 1].
C9_ScoresInUnitInterval ==
    /\ \A p \in Procs :
          Done(p, "match_style") =>
              \A i \in 1..Len(calls[p].feedback) : InUnit(calls[p].feedback[i].confidence)
    /\ out.op = "analyze_proportions" =>
          \A i \in 1..Len(out.result.feedback) : InUnit(out.result.feedback[i].confidence)
    /\ out.op = "analyze_colors" => InUnit(out.result.value.overall_score)

\* no pixel of the frame is in the skin range
NoSkin(frame) == \A i \in 1..Len(frame.pixels) : ~InSkinRange(frame.pixels[i])

\* C10 (as claimed): when no pixel of the frame matches the skin range,
\* analyze_colors returns overall_score 0.5, harmony_type "unknown", exactly one
\* feedback string, and no garment color entries.
C10_NoSkinNoGarmentEntries ==
    (out.op = "analyze_colors" /\ out.frame.decodable /\ NoSkin(out.frame))
        => /\ out.result.value.overall_score = Rat(5, 10)
           /\ out.result.value.harmony_analysis.harmony_type = "unknown"
           /\ Len(out.result.value.harmony_analysis.feedback) = 1
           /\ out.result.value.garment_colors = <<>>


\* every detection has its "class" key, as a Detection does
WellFormed(detections) == \A i \in 1..Len(detections) : "class" \in detections[i].keys

HasClass(detections, class) == \E i \in 1..Len(detections) : detections[i].class = class

\* C11: when no detection is of class "person", analyze_proportions returns
\* exactly one item, the low-priority "No person detected" one, and no
\* proportion, fit or balance item, whatever garments are detected.
C11_NoPersonShortCircuits ==
    (/\ out.op = "analyze_proportions"
     /\ WellFormed(out.detections) /\ ~HasClass(out.detections, "person"))
        => /\ Len(out.result.feedback) = 1
           /\ out.result.feedback[1].message = "No person detected in the image"
           /\ out.result.feedback[1].priority = "low"
           /\ out.result.feedback[1].confidence = Rat(5, 10)
           /\ out.result.feedback[1].type \notin {"proportion", "fit", "style"}

C11_Witness ==
    /\ out.op = "analyze_proportions"
    /\ WellFormed(out.detections) /\ ~HasClass(out.detections, "person")
    /\ HasClass(out.detections, "shirt") /\ HasClass(out.detections, "pants")
    /\ HasClass(out.detections, "jacket")
    /\ out.result.feedback[1].message = "No person detected in the image"

\* C12: in the step in which create_style_profile returns from its internal
\* error path, it returns the timestamp-derived identifier, raises nothing, and
\* the style cache is exactly what it was: nothing is stored for the call.
C12_FailedCreateStoresNothing ==
    [][\A p \in Procs :
         (Returns(p) /\ calls'[p].op = "create_style_profile"
                     /\ calls'[p].ret_id.kind # "uuid4")
            => /\ calls'[p].ret_id = TimestampId(clock')
               /\ ~calls'[p].raised
               /\ style_cache' = style_cache
               /\ calls'[p].style_id \in DOMAIN style_cache'
                      => calls'[p].style_id \in DOMAIN style_cache]_vars

C12_Witness ==
    \E p \in Procs :
        /\ Done(p, "create_style_profile") /\ calls[p].ret_id.kind = "time"
        /\ calls[p].image_urls = <<U1, U2>>
        /\ DOMAIN style_cache # {}
        /\ calls[p].style_id \notin DOMAIN style_cache


\* C13: the pairwise harmony score is symmetric: score(c1, c2) = score(c2, c1)
\* for all HSV colors c1 and c2.
C13_HarmonyScoreSymmetric ==
    out.op = "_calculate_harmony_score"
        => out.result.value = CalculateHarmonyScore(out.color2_hsv, out.color1_hsv)

\* two different colors whose hues are more than 180 apart, and which differ in
\* saturation and value
C13_Witness ==
    /\ out.op = "_calculate_harmony_score"
    /\ out.color1_hsv = ColorSample(<<350, 77, 100>>).hsv
    /\ out.color2_hsv = ColorSample(<<30, 0, 177>>).hsv
    /\ out.result.value = Rat(5, 10)

\* the reports analyze_colors can return
ColorReports ==
    {AnalyzeColors(frame, segs, order).value :
        frame \in Frames, segs \in SegLists, order \in CenterOrders}

\* C14 (as claimed): any two reports of analyze_colors that carry the same
\* overall_score carry the same harmony_type.
C14_TypeFromScoreAlone ==
    out.op = "analyze_colors"
        => \A r \in ColorReports :
              r.overall_score = out.result.value.overall_score
                  => r.harmony_analysis.harmony_type
                         = out.result.value.harmony_analysis.harmony_type

\* C14 (amended): harmony_type is a function of the overall score and of
\* whether a skin tone was detected.  Any two reports that agree on both carry
\* the same harmony_type; with a skin tone detected it is "excellent" above 0.8,
\* "good" above 0.7, "neutral" above 0.6 and "poor" otherwise; with none detected
\* it is "unknown" and the score is 0.5.
C14_TypeFromScoreAndDetection ==
    out.op = "analyze_colors"
        => LET report == out.result.value
               score == report.overall_score
               type == report.harmony_analysis.harmony_type
           IN  /\ \A r \in ColorReports :
                     (/\ r.overall_score = score
                      /\ r.skin_tone.detected = report.skin_tone.detected)
                         => r.harmony_analysis.harmony_type = type
               /\ report.skin_tone.detected =>
                     /\ RGt(score, Rat(8, 10)) => type = "excellent"
                     /\ RGt(score, Rat(7, 10)) /\ RLe(score, Rat(8, 10)) => type = "good"
                     /\ RGt(score, Rat(6, 10)) /\ RLe(score, Rat(7, 10)) => type = "neutral"
                     /\ RLe(score, Rat(6, 10)) => type = "poor"
               /\ ~report.skin_tone.detected => type = "unknown" /\ score = Rat(5, 10)

\* a report with a skin tone detected whose score is the 0.5 of the undetected one
C14_Witness ==
    /\ out.op = "analyze_colors"
    /\ out.result.value.skin_tone.detected
    /\ out.result.value.overall_score = Rat(5, 10)
    /\ out.result.value.harmony_analysis.harmony_type = "poor"


\* the call analysed its detections: they are Detections, one is a person, and
\* the person's height is not zero
Analysed ==
    /\ out.op = "analyze_proportions"
    /\ WellFormed(out.detections) /\ HasClass(out.detections, "person")
    /\ BboxHeight(out.detections[FindPerson(out.detections, 1).index].bbox) # 0

PersonHeight == BboxHeight(out.detections[FindPerson(out.detections, 1).index].bbox)

ItemsOfType(type) == SelectSeq(out.result.feedback, LAMBDA f : f.type = type)

DetectionsOf(classes) == SelectSeq(out.detections, LAMBDA d : d.class \in classes)

\* the proportion item C15 gives a shirt or pants detection
ClaimedProportionItem(d) ==
    LET ideal == IF d.class = "shirt" THEN Rat(4, 10) ELSE Rat(6, 10)
        tolerance == Rat(1, 10)
        ratio == Rat(BboxHeight(d.bbox), PersonHeight)
    IN  IF RGt(RAbs(RSub(ratio, ideal)), tolerance)
        THEN [message |-> IF RGt(ratio, RAdd(ideal, tolerance))
                          THEN "appears too long for your body proportions"
                          ELSE "appears too short for your body proportions",
              confidence |-> Rat(8, 10), priority |-> "medium", actionable |-> TRUE]
        ELSE [message |-> "is well-proportioned for your body",
              confidence |-> Rat(9, 10), priority |-> "low", actionable |-> FALSE]

\* C15 (as claimed): every shirt and pants detection gets the proportion item
\* of its ratio: "too long" above ideal + tolerance, "too short" below
\* ideal - tolerance, and "well-proportioned" in between, both edges included.
C15_ProportionTiers ==
    Analysed =>
        LET garments == DetectionsOf({"shirt", "pants"})
            items == ItemsOfType("proportion")
        IN  /\ Len(items) = Len(garments)
            /\ \A i \in 1..Len(garments) :
                  LET claimed == ClaimedProportionItem(garments[i])
                  IN  /\ items[i].about = garments[i].class
                      /\ items[i].message = claimed.message
                      /\ items[i].confidence = claimed.confidence
                      /\ items[i].priority = claimed.priority
                      /\ items[i].actionable = claimed.actionable


\* the fit item C16 gives a detection of confidence c
ClaimedFitItem(c) ==
    IF RGt(c, Rat(9, 10))
    THEN [message |-> "appears to fit well",
          confidence |-> Rat(85, 100), priority |-> "low", actionable |-> FALSE]
    ELSE IF RLe(Rat(7, 10), c)
    THEN [message |-> "fit could be improved",
          confidence |-> Rat(75, 100), priority |-> "medium", actionable |-> TRUE]
    ELSE [message |-> "doesn't appear to fit properly",
          confidence |-> Rat(65, 100), priority |-> "high", actionable |-> TRUE]

\* C16 (as claimed): every shirt, pants and dress detection gets the fit item
\* of its confidence c: "fits well" for c > 0.9, "could be improved" for c from
\* 0.7 up to and including 0.9, "doesn't fit properly" for c < 0.7.
C16_FitTiers ==
    Analysed =>
        LET garments == DetectionsOf({"shirt", "pants", "dress"})
            items == ItemsOfType("fit")
        IN  /\ Len(items) = Len(garments)
            /\ \A i \in 1..Len(garments) :
                  LET claimed == ClaimedFitItem(garments[i].confidence)
                  IN  /\ items[i].about = garments[i].class
                      /\ items[i].message = claimed.message
                      /\ items[i].confidence = claimed.confidence
                      /\ items[i].priority = claimed.priority
                      /\ items[i].actionable = claimed.actionable

\* the garment classes present among the detections
ClassesPresent ==
    {c \in {"shirt", "pants", "dress", "skirt", "jacket"} : HasClass(out.detections, c)}

\* C17 (as claimed): whenever fewer than 2 distinct garment classes are present,
\* several detections of one class included, the balance step emits exactly
\* one item, the "add more pieces" suggestion.
C17_BalanceCountsDistinctClasses ==
    (Analysed /\ Cardinality(ClassesPresent) < 2)
        => /\ Len(ItemsOfType("style")) = 1
           /\ ItemsOfType("style")[1].message
                  = "Consider adding more pieces for a complete outfit"

\* the messages of the rewards whose own condition holds, in the order the
\* balance step takes them
ClaimedRewards ==
    (IF {"shirt", "pants"} \subseteq ClassesPresent
     THEN <<"Good basic outfit coordination with shirt and pants">> ELSE <<>>)
    \o (IF "dress" \in ClassesPresent
        THEN <<"Dress provides a cohesive, coordinated look">> ELSE <<>>)
    \o (IF "jacket" \in ClassesPresent
        THEN <<"Good use of layering with the jacket">> ELSE <<>>)

\* C18 (as claimed): when at least 2 garment classes are present, the
\* shirt+pants reward, the dress reward and the jacket reward are each emitted
\* whenever their own condition holds; none suppresses another.
C18_RewardsIndependent ==
    (Analysed /\ Cardinality(ClassesPresent) >= 2)
        => [i \in 1..Len(ItemsOfType("style")) |-> ItemsOfType("style")[i].message]
               = ClaimedRewards


\* best = max and avg = mean of a non-empty list of similarities
BestOf(similarities) ==
    CHOOSE b \in {similarities[i] : i \in 1..Len(similarities)} :
        \A i \in 1..Len(similarities) : RLe(similarities[i], b)
AvgOf(similarities) == RDiv(RSum(similarities), Rat(Len(similarities), 1))

\* the overall item C19 gives a list of similarities
ClaimedOverall(similarities) ==
    LET best == BestOf(similarities)
        avg == AvgOf(similarities)
    IN  IF RGt(best, Rat(7, 10))
        THEN [message |-> "Excellent style match", confidence |-> best, priority |-> "high"]
        ELSE IF RGt(avg, Rat(5, 10))
        THEN [message |-> "Good style alignment", confidence |-> avg, priority |-> "medium"]
        ELSE [message |-> "Consider adjusting your outfit", confidence |-> avg,
              priority |-> "high"]

IsClaimedOverall(item, similarities) ==
    /\ item.message = ClaimedOverall(similarities).message
    /\ item.confidence = ClaimedOverall(similarities).confidence
    /\ item.priority = ClaimedOverall(similarities).priority

OverallMessages ==
    {"Excellent style match", "Good style alignment", "Consider adjusting your outfit"}

\* p's match_style has returned after comparing the frame with a non-empty
\* reference set
Matched(p) ==
    /\ Done(p, "match_style")
    /\ calls[p].style_embeddings # <<>> /\ calls[p].similarities # <<>>

\* C19: for a non-empty reference set match_style emits exactly one overall
\* item, the first, chosen from best = max and avg = mean of the similarities:
\* "excellent match" with confidence best and high priority when best > 0.7,
\* else "good alignment" with confidence avg and medium priority when avg > 0.5,
\* else "consider adjusting" with confidence avg and high priority; best = 0.7
\* and avg = 0.5 take the lower branch.
C19_OverallItem ==
    /\ \A p \in Procs :
          Matched(p) =>
              /\ IsClaimedOverall(calls[p].feedback[1], calls[p].similarities)
              /\ \A i \in 2..Len(calls[p].feedback) :
                    calls[p].feedback[i].message \notin OverallMessages
    /\ out.op = "overall_feedback" => IsClaimedOverall(out.result.value, out.similarities)

\* best exactly 0.7 and avg exactly 0.5
C19_Witness ==
    /\ out.op = "overall_feedback"
    /\ out.similarities = <<Rat(7, 10), Rat(3, 10)>>
    /\ out.result.value.message = "Consider adjusting your outfit"
    /\ out.result.value.confidence = Rat(5, 10)

\* the tier C20 gives a garment item of average similarity avg
ClaimedGarmentMessage(avg) ==
    IF RGt(avg, Rat(8, 10)) THEN "perfectly matches your reference style"
    ELSE IF RGt(avg, Rat(6, 10)) THEN "works well with your reference style"
    ELSE "Consider a different garment"

WellFormedSegs(segmentation_results) ==
    \A i \in 1..Len(segmentation_results) :
        {"class", "bbox"} \subseteq segmentation_results[i].keys

\* C20: for a non-empty reference set and well-formed segmentation results
\* match_style returns 1 + len(segmentation_results) items: the overall item,
\* then one item per segmented garment in input order, each tiered by its
\* average similarity (> 0.8 perfect match, > 0.6 works well, else suggest a
\* change).
C20_OnePerGarment ==
    /\ \A p \in Procs :
          (Matched(p) /\ WellFormedSegs(calls[p].segmentation_results)) =>
              LET segs == calls[p].segmentation_results
                  feedback == calls[p].feedback
              IN  /\ Len(feedback) = 1 + Len(segs)
                  /\ feedback[1].message \in OverallMessages
                  /\ \A i \in 1..Len(segs) :
                        /\ feedback[i + 1].about = segs[i].class
                        /\ feedback[i + 1].message
                               = ClaimedGarmentMessage(feedback[i + 1].confidence)
    /\ out.op = "garment_feedback" =>
          /\ out.result.value.about = out.garment_class
          /\ out.result.value.confidence = AvgOf(out.similarities)
          /\ out.result.value.message = ClaimedGarmentMessage(AvgOf(out.similarities))

\* two garments, in input order, the first at an average similarity of exactly 0.6
C20_Witness ==
    \E p \in Procs :
        /\ Matched(p)
        /\ Len(calls[p].segmentation_results) = 2
        /\ WellFormedSegs(calls[p].segmentation_results)
        /\ Len(calls[p].feedback) = 3
        /\ calls[p].feedback[2].about = "pants" /\ calls[p].feedback[3].about = "shirt"
        /\ calls[p].feedback[2].confidence = Rat(6, 10)
        /\ calls[p].feedback[2].message = "Consider a different garment"


\* the circular distance of two hues
CircularDistance(h1, h2) ==
    LET across == RAbs(RSub(h1, h2))
    IN  RMin(across, RSub(Rat(360, 1), across))

\* the score C21 gives two colors
ClaimedHarmonyScore(c1, c2) ==
    LET d == CircularDistance(c1[1], c2[1])
        base == IF RLe(d, Rat(30, 1)) THEN Rat(9, 10)
                ELSE IF RLe(RAbs(RSub(d, Rat(180, 1))), Rat(30, 1)) THEN Rat(8, 10)
                ELSE IF RLe(RAbs(RSub(d, Rat(120, 1))), Rat(30, 1)) THEN Rat(7, 10)
                ELSE Rat(5, 10)
        close == /\ RLt(RDiv(RAbs(RSub(c1[2], c2[2])), Rat(255, 1)), Rat(3, 10))
                 /\ RLt(RDiv(RAbs(RSub(c1[3], c2[3])), Rat(255, 1)), Rat(3, 10))
        sum == IF close THEN RAdd(base, Rat(1, 10)) ELSE base
    IN  IF RLt(One, sum) THEN One ELSE sum

\* C21: the pairwise harmony score is the tier of the circular hue distance
\* d = min(|h1-h2|, 360-|h1-h2|), which is symmetric and lies in [0, 180]
\* (d <= 30 gives 0.9, else |d-180| <= 30 gives 0.8, else |d-120| <= 30 gives
\* 0.7, else 0.5), plus 0.1 when the saturation and the value difference over
\* 255 are both below 0.3, capped at 1.0.
C21_HarmonyScoreTiers ==
    out.op = "_calculate_harmony_score"
        => LET h1 == out.color1_hsv[1]
               h2 == out.color2_hsv[1]
               d == CircularDistance(h1, h2)
           IN  /\ HueDiff(h1, h2) = d
               /\ HueDiff(h2, h1) = d
               /\ RLe(Zero, d) /\ RLe(d, Rat(180, 1))
               /\ out.result.value = ClaimedHarmonyScore(out.color1_hsv, out.color2_hsv)

\* hues 350 and 10 are 20 apart: the 0.9 tier, and 1.0 with the bonus
C21_Witness ==
    /\ out.op = "_calculate_harmony_score"
    /\ out.color1_hsv = ColorSample(<<350, 76, 100>>).hsv
    /\ out.color2_hsv = ColorSample(<<10, 0, 100>>).hsv
    /\ HueDiff(out.color1_hsv[1], out.color2_hsv[1]) = Rat(20, 1)
    /\ out.result.value = One


\* the tier C22 gives a score: 1 the highest, 4 the lowest
ClaimedTier(s) ==
    IF s = Rat(8, 10) THEN 2
    ELSE IF s = Rat(7, 10) THEN 3
    ELSE IF s = Rat(6, 10) THEN 4
    ELSE IF RGt(s, Rat(8, 10)) THEN 1
    ELSE IF RGt(s, Rat(7, 10)) THEN 2
    ELSE IF RGt(s, Rat(6, 10)) THEN 3
    ELSE 4

TierType(tier) == <<"excellent", "good", "neutral", "poor">>[tier]

TierTemplate(tier) ==
    <<"color works beautifully with your skin tone",
      "color complements your skin tone well",
      "color is acceptable with your skin tone",
      "Consider a different color">>[tier]

\* C22: harmony_type is "excellent" above 0.8, "good" above 0.7, "neutral"
\* above 0.6 and "poor" otherwise, so that exactly 0.8 is "good", exactly 0.7
\* "neutral" and exactly 0.6 "poor"; the per-garment feedback template is
\* chosen by the same three breakpoints.
C22_HarmonyTypeTiers ==
    /\ out.op = "_classify_harmony_type"
          => out.result.value = TierType(ClaimedTier(out.score))
    /\ out.op = "_generate_color_feedback"
          => out.result.value.message = TierTemplate(ClaimedTier(out.score))
    /\ (out.op = "analyze_colors" /\ out.frame.decodable
            /\ out.result.value.skin_tone.detected)
          => LET harmony == out.result.value.harmony_analysis
             IN  /\ harmony.harmony_type = TierType(ClaimedTier(harmony.overall_score))
                 /\ \A i \in 1..Len(harmony.feedback) :
                       harmony.feedback[i].message
                           = TierTemplate(ClaimedTier(harmony.individual_scores[i]))

\* a score of exactly 0.7 is "neutral"
C22_Witness ==
    /\ out.op = "_classify_harmony_type"
    /\ out.score = Rat(7, 10)
    /\ out.result.value = "neutral"


\* analyze_colors returned its own report with a skin tone detected
SkinDetected ==
    /\ out.op = "analyze_colors" /\ out.frame.decodable
    /\ out.result.value.skin_tone.detected

\* C23: with a skin tone detected, the overall harmony score is the arithmetic
\* mean of the pairwise scores between the skin tone and the primary color of
\* every garment that has one, with one individual score and one feedback
\* string per such garment, in their order; when no garment has a primary
\* color the overall score is 0.7 and both lists are empty.
C23_OverallIsMean ==
    SkinDetected =>
        LET report == out.result.value
            harmony == report.harmony_analysis
            garments == SelectSeq(report.garment_colors, LAMBDA g : g.primary_color # <<>>)
            n == Len(garments)
        IN  /\ Len(harmony.individual_scores) = n
            /\ Len(harmony.feedback) = n
            /\ \A k \in 1..n :
                  /\ harmony.individual_scores[k]
                         = CalculateHarmonyScore(report.skin_tone.hsv,
                                                 garments[k].primary_color[1].hsv)
                  /\ harmony.feedback[k].garment_class = garments[k].class
            /\ n > 0 => harmony.overall_score
                            = RDiv(RSum(harmony.individual_scores), Rat(n, 1))
            /\ n = 0 => harmony.overall_score = Rat(7, 10)
            /\ report.overall_score = harmony.overall_score

\* two garments with primary colors that score differently against the skin tone
C23_Witness ==
    /\ SkinDetected
    /\ Len(out.result.value.garment_colors) = 2
    /\ out.result.value.harmony_analysis.individual_scores = <<Rat(7, 10), One>>
    /\ out.result.value.overall_score = Rat(85, 100)


\* the pixels of a region that have the color of a cluster center
ClusterSize(region, color) ==
    Cardinality({i \in 1..Len(region) : ColorSample(region[i]) = color})

\* the region has exactly three colors, so that its three clusters are its colors
ThreeColors(region) == Cardinality({region[i] : i \in 1..Len(region)}) = 3

\* C24 (as claimed), for the garments whose region has three colors: the colors
\* list is ordered by cluster size, largest first, and primary_color is the
\* color of the cluster that holds the most pixels; an empty region gives an
\* empty colors list and no primary color.
C24_ColorsBySize ==
    (out.op = "analyze_colors" /\ out.frame.decodable) =>
        LET segs == SelectSeq(out.segmentation_results,
                              LAMBDA seg : {"bbox", "class"} \subseteq seg.keys)
            garments == out.result.value.garment_colors
        IN  /\ Len(garments) = Len(segs)
            /\ \A k \in 1..Len(garments) :
                  LET region == GarmentRegion(out.frame.pixels, segs[k].bbox)
                      colors == garments[k].colors
                      primary == garments[k].primary_color
                  IN  /\ region = <<>> => colors = <<>> /\ primary = <<>>
                      /\ ThreeColors(region) =>
                            /\ \A i, j \in 1..Len(colors) :
                                  i < j => ClusterSize(region, colors[i])
                                               >= ClusterSize(region, colors[j])
                            /\ primary # <<>>
                            /\ \A i \in 1..Len(region) :
                                  ClusterSize(region, primary[1])
                                      >= ClusterSize(region, ColorSample(region[i]))


\* the step is one of p's match_style: the call itself, up to its first await,
\* or the return of one of its awaits
MatchStyleStep(p) ==
    \/ /\ ncalls' = ncalls + 1
       /\ calls'[p].op = "match_style" /\ calls'[p].seq = ncalls'
    \/ /\ ncalls' = ncalls
       /\ calls[p].op = "match_style" /\ calls[p].pc \in {"encode", "similarity", "garment"}
       /\ \/ calls'[p].pc # calls[p].pc
          \/ calls'[p].similarities # calls[p].similarities
          \/ calls'[p].garment_similarities # calls[p].garment_similarities
          \/ calls'[p].feedback # calls[p].feedback

\* C25 (as claimed): match_style is read-only on the style cache: no step of a
\* match_style call changes the keys of the cache or the list under a key, so
\* an identifier that is absent when it is matched against is absent afterwards.
C25_MatchStyleReadOnly ==
    [][\A p \in Procs : MatchStyleStep(p) => style_cache' = style_cache]_vars


\* the person analyze_proportions designates (the first) has a bounding box of
\* height 0, and a shirt, pants or dress is detected
ZeroHeightPerson ==
    /\ out.op = "analyze_proportions"
    /\ WellFormed(out.detections) /\ HasClass(out.detections, "person")
    /\ BboxHeight(out.detections[FindPerson(out.detections, 1).index].bbox) = 0
    /\ \E c \in {"shirt", "pants", "dress"} : HasClass(out.detections, c)

\* C26: analyze_proportions is all-or-nothing on internal error: with a person
\* of height 0 and at least one shirt, pants or dress detected, the result is
\* exactly one item (general, "Error analyzing proportions", 0.5, low) and no
\* proportion, fit or balance item.
C26_ErrorIsAllOrNothing ==
    ZeroHeightPerson =>
        /\ Len(out.result.feedback) = 1
        /\ out.result.feedback[1].type = "general"
        /\ out.result.feedback[1].message = "Error analyzing proportions"
        /\ out.result.feedback[1].confidence = Rat(5, 10)
        /\ out.result.feedback[1].priority = "low"
        /\ ~out.result.raised

\* a shirt ahead of the person in the detection list
C26_Witness ==
    /\ ZeroHeightPerson
    /\ Len(out.detections) = 2
    /\ out.detections[1].class = "shirt" /\ out.detections[2].class = "person"
    /\ out.result.feedback[1].message = "Error analyzing proportions"


\* C27 (as claimed): analyze_proportions never returns an empty list: for every
\* detection list, with or without a person, the result holds at least one item.
C27_NeverEmpty ==
    out.op = "analyze_proportions" => Len(out.result.feedback) >= 1


\* C28: with a person of non-zero height detected, the result of
\* analyze_proportions is, in this order, one "proportion" item per shirt or
\* pants detection (none for dress, skirt or jacket), then one "fit" item per
\* shirt, pants or dress detection, then the balance items of type "style";
\* within each group the items follow the order of the detection list.
C28_GroupsInOrder ==
    Analysed =>
        LET proportioned == DetectionsOf({"shirt", "pants"})
            fitted == DetectionsOf({"shirt", "pants", "dress"})
            feedback == out.result.feedback
            np == Len(proportioned)
            nf == Len(fitted)
        IN  /\ Len(feedback) >= np + nf
            /\ \A k \in 1..np :
                  /\ feedback[k].type = "proportion"
                  /\ feedback[k] = ProportionItem(proportioned[k].class,
                                       Rat(BboxHeight(proportioned[k].bbox), PersonHeight))
            /\ \A k \in 1..nf :
                  /\ feedback[np + k].type = "fit"
                  /\ feedback[np + k] = FitItem(fitted[k].class, fitted[k].confidence)
            /\ \A k \in (np + nf + 1)..Len(feedback) : feedback[k].type = "style"

\* shirt, dress and pants after the person: two proportion items, three fit
\* items, one balance item
C28_Witness ==
    /\ Analysed
    /\ [k \in 1..Len(out.detections) |-> out.detections[k].class]
           = <<"person", "shirt", "dress", "pants">>
    /\ [k \in 1..Len(out.result.feedback) |-> out.result.feedback[k].type]
           = <<"proportion", "proportion", "fit", "fit", "fit", "style">>
    /\ [k \in 1..Len(out.result.feedback) |-> out.result.feedback[k].about]
           = <<"shirt", "pants", "shirt", "dress", "pants", "">>

\* no user_prefs at all
NoPrefs == CHOOSE user_prefs \in UserPrefs : ~user_prefs.given

\* C29: the result of analyze_proportions depends only on the detection list:
\* every call, whatever its user_prefs (a fit preference and occasion, or
\* none) and segmentation_results, returns what the call with the same
\* detections, no user_prefs and no segmentation results returns; so any two
\* calls with the same detections return the same list.
C29_OnlyDetectionsMatter ==
    out.op = "analyze_proportions" =>
        out.result = AnalyzeProportions(out.detections, <<>>, NoPrefs)

\* a call with a loose fit preference and segmentation results that returned
\* fit items
C29_Witness ==
    /\ Analysed
    /\ out.user_prefs.given /\ out.user_prefs.fit_preferences = "loose"
    /\ out.segmentation_results # <<>>
    /\ ItemsOfType("fit") # <<>>
    /\ out.result = AnalyzeProportions(out.detections, <<>>, NoPrefs)


\* the reference set of call c at its lookup: the list found under style_id, or
\* the list the lookup put there
Snapshot(c) == IF c.present THEN c.pre ELSE MockStyleEmbeddings

\* C30 (as claimed): match_style works on a snapshot of the reference set: the
\* embeddings its similarities are computed over, for the overall item and for
\* the per-garment items, are exactly those stored under style_id at the moment
\* of the lookup, whatever update or delete on the same style_id interleaves.
C30_MatchUsesSnapshot ==
    \A p \in Procs :
        Matched(p) =>
            /\ calls[p].style_embeddings = Snapshot(calls[p])
            /\ Len(calls[p].similarities) = Len(Snapshot(calls[p]))
            /\ calls[p].garment_similarities # <<>> =>
                   Len(calls[p].garment_similarities) = Len(Snapshot(calls[p]))

=============================================================================
